---- MODULE Spec2Model ----
(***************************************************************************)
(* Model of superzip.ziplus (src/superzip.py): a zip over N iterables with *)
(* a per-column default (fill policy).  ziplus is a generator function:    *)
(* calling it only creates a generator object; its body runs on the        *)
(* consumer's row requests (__next__).  One action models one request.     *)
(*                                                                         *)
(* Python values are modelled as strings.  An argument is a record         *)
(* [isIterable, obj]; a default is a record [kind, arg] whose kind tells   *)
(* which test of the code it satisfies.                                    *)
(***************************************************************************)
EXTENDS Integers, Sequences, FiniteSets, TLC

\* ---------------------------------------------------------------- bounds
MaxN == 2          \* most columns (iterables) of a call
MaxLen == 3        \* longest input sequence of the general specification

\* ---------------------------------------------------------------- values
None == "None"

\* The element at position t of the sequence given for column i: every
\* element of every column is distinct, so a row tells where each of its
\* entries came from.
Pool ==
  << <<"a1", "a2", "a3", "a4">>,
     <<"b1", "b2", "b3", "b4">>,
     <<"c1", "c2", "c3", "c4">>,
     <<"d1", "d2", "d3", "d4">> >>

\* A scalar (non-iterable) argument given for column i.
Scalars == <<"s1", "s2", "s3", "s4">>

ListArg(s) == [isIterable |-> TRUE, obj |-> s]
ScalarArg(x) == [isIterable |-> FALSE, obj |-> x]

\* The arguments that may be given for column i.
ArgsFor(i) ==
  {ListArg(SubSeq(Pool[i], 1, l)) : l \in 0..MaxLen} \cup {ScalarArg(Scalars[i])}

\* defaults[i]: the StopIteration class, the Previous marker, an exception
\* instance, or any other value (None included).
StopIteration == [kind |-> "StopIteration", arg |-> "StopIteration"]
Previous == [kind |-> "Previous", arg |-> "Previous"]
Exc(e) == [kind |-> "Exception", arg |-> e]
Const(v) == [kind |-> "value", arg |-> v]

Policies ==
  {StopIteration, Previous, Const(None), Const("k"),
   Exc("IndexError"), Exc("KeyError")}

\* Tuples of length n over the set S.
Tuples(n, S) == [1..n -> S]

\* The defaults argument: omitted (None), a Sequence of defaults, or an
\* object that is not a Sequence (a set, a generator, ...).
DefaultsNone == [kind |-> "None", obj |-> <<>>]
DefaultsSeq(ds) == [kind |-> "Sequence", obj |-> ds]
DefaultsNonSeq == [kind |-> "NonSequence", obj |-> <<>>]

\* ------------------------------------------------------- the generator
\* Iter that wraps a scalar in an empty tuple.
Iter_EmptyWrap(a) == IF a.isIterable THEN a.obj ELSE <<>>

\* iter(i if isinstance(i, Iterable) else (i,))
Iter(a) == IF a.isIterable THEN a.obj ELSE <<a.obj>>

\* The argument with a scalar x replaced by the list [x].
Listify(a) == IF a.isIterable THEN a ELSE ListArg(<<a.obj>>)

\* The generator object returned by the call ziplus(*iterables,
\* defaults=defaults): nothing of the body has run.
\*   pc        "created" | "suspended" (at the yield) | "closed"
\*   call      the arguments of the call, as given
\*   consumed  how many values of each argument have been pulled
\*   pulls     how many times items[i].__next__() has been called
\*   flow      how the column loop went on: "next" | "return" | "raise"
\*   result    what the last request gave: "none" | "row" | "StopIteration"
\*             | "error";  error: the exception raised
\*   yielded   the rows the consumer has received
\*   requests  the row requests the body has served (those made before
\*             the generator finished)
Create(iterables, defaults) ==
  [pc |-> "created",
   call |-> [iterables |-> iterables, defaults |-> defaults],
   defaults |-> defaults, n_items |-> 0, items |-> <<>>,
   consumed |-> [i \in 1..Len(iterables) |-> 0],
   pulls |-> [i \in 1..Len(iterables) |-> 0],
   n_stopped |-> 0, stopped |-> <<>>, i_rows |-> 0,
   values |-> <<>>, previous |-> <<>>,
   flow |-> "next", error |-> None, result |-> "none", yielded |-> <<>>,
   requests |-> 0]

\* Pull that leaves the sequence where it was.
Pull_NoAdvance(g, i) ==
  [g EXCEPT !.values = Append(@, g.items[i][g.consumed[i] + 1]),
            !.pulls[i] = @ + 1]

\* items[i].__next__() succeeds: the column's next value joins the row.
Pull(g, i) ==
  [g EXCEPT !.values = Append(@, g.items[i][g.consumed[i] + 1]),
            !.consumed[i] = @ + 1, !.pulls[i] = @ + 1]

\* Fill that takes None for a Previous default in every row, as the code
\* of the first row does.
Fill_NoPrevious(g, i, first) ==
  LET d == g.defaults.obj[i] IN
  IF d.kind = "Exception"
  THEN [g EXCEPT !.flow = "raise", !.error = d.arg]
  ELSE [g EXCEPT !.values =
          Append(@, IF d.kind = "Previous" THEN None ELSE d.arg)]

\* Fill that reuses the previous row's value whatever the default is.
Fill_AlwaysPrevious(g, i, first) ==
  LET d == g.defaults.obj[i] IN
  IF d.kind = "Exception"
  THEN [g EXCEPT !.flow = "raise", !.error = d.arg]
  ELSE [g EXCEPT !.values =
          Append(@, IF first THEN None ELSE g.previous[i])]

\* Fill without the test for an exception instance: the exception object
\* is appended as a constant.
Fill_NoRaise(g, i, first) ==
  LET d == g.defaults.obj[i] IN
  [g EXCEPT !.values =
     Append(@, IF d.kind = "Previous"
               THEN (IF first THEN None ELSE g.previous[i])
               ELSE d.arg)]

\* Fill that appends the default itself in the first row, the Previous
\* marker included.
Fill_FirstAsDefault(g, i, first) ==
  LET d == g.defaults.obj[i] IN
  IF d.kind = "Exception"
  THEN [g EXCEPT !.flow = "raise", !.error = d.arg]
  ELSE [g EXCEPT !.values =
          Append(@, IF d.kind = "Previous" /\ ~first
                    THEN g.previous[i]
                    ELSE d.arg)]

\* The column is exhausted and its default is not the cause of a return:
\* raise an exception default, else append the previous row's value (None
\* while the first row is built) or the default itself.
Fill(g, i, first) ==
  LET d == g.defaults.obj[i] IN
  IF d.kind = "Exception"
  THEN [g EXCEPT !.flow = "raise", !.error = d.arg]
  ELSE [g EXCEPT !.values =
          Append(@, IF d.kind = "Previous"
                    THEN (IF first THEN None ELSE g.previous[i])
                    ELSE d.arg)]

\* Exhaust without the test "defaults[i] is StopIteration": the column is
\* filled like any other.
Exhaust_NoReturn(g, i, first) ==
  Fill([g EXCEPT !.stopped[i] = TRUE, !.pulls[i] = @ + 1, !.n_stopped = @ + 1], i, first)

\* Exhaust that returns whatever the column's default is, as a plain zip.
Exhaust_StopAny(g, i, first) ==
  [g EXCEPT !.stopped[i] = TRUE, !.pulls[i] = @ + 1, !.n_stopped = @ + 1, !.flow = "return"]

\* Exhaust that does not count the exhausted column.
Exhaust_NoCount(g, i, first) ==
  LET h == [g EXCEPT !.stopped[i] = TRUE, !.pulls[i] = @ + 1] IN
  IF g.defaults.obj[i].kind = "StopIteration"
  THEN [h EXCEPT !.flow = "return"]
  ELSE Fill(h, i, first)

\* Exhaust that fills the column before it tests for StopIteration.
Exhaust_FillFirst(g, i, first) ==
  LET h == Fill([g EXCEPT !.stopped[i] = TRUE, !.pulls[i] = @ + 1, !.n_stopped = @ + 1], i, first) IN
  IF g.defaults.obj[i].kind = "StopIteration"
  THEN [h EXCEPT !.flow = "return"]
  ELSE h

\* items[i].__next__() raises StopIteration: mark the column, count it, and
\* return from the generator when its default is StopIteration.
Exhaust(g, i, first) ==
  LET h == [g EXCEPT !.stopped[i] = TRUE, !.pulls[i] = @ + 1, !.n_stopped = @ + 1] IN
  IF g.defaults.obj[i].kind = "StopIteration"
  THEN [h EXCEPT !.flow = "return"]
  ELSE Fill(h, i, first)

\* Column that appends nothing for a column exhausted in an earlier row.
Column_SkipStopped(g, i, first) ==
  IF g.stopped[i] = FALSE
  THEN IF g.consumed[i] < Len(g.items[i])
       THEN Pull(g, i)
       ELSE Exhaust(g, i, first)
  ELSE g

\* Column that does not test the stopped flag before it pulls.
Column_Repull(g, i, first) ==
  IF g.consumed[i] < Len(g.items[i])
  THEN Pull(g, i)
  ELSE Exhaust(g, i, first)

\* One pass of the body of "for i in i_items".
Column(g, i, first) ==
  IF g.stopped[i] = FALSE
  THEN IF g.consumed[i] < Len(g.items[i])
       THEN Pull(g, i)
       ELSE Exhaust(g, i, first)
  ELSE Fill(g, i, first)

\* Columns that goes on with the later columns after a return or a raise.
RECURSIVE Columns_NoBreak(_, _, _)
Columns_NoBreak(g, i, first) ==
  IF i > g.n_items
  THEN g
  ELSE Columns_NoBreak(Column(g, i, first), i + 1, first)

\* Columns in which a raise is deferred to the end of the column loop.
RECURSIVE Columns_RaiseDeferred(_, _, _)
Columns_RaiseDeferred(g, i, first) ==
  IF i > g.n_items \/ g.flow = "return"
  THEN g
  ELSE Columns_RaiseDeferred(Column(g, i, first), i + 1, first)

\* for i in i_items, from column i on, until a return or a raise.
RECURSIVE Columns(_, _, _)
Columns(g, i, first) ==
  IF i > g.n_items \/ g.flow # "next"
  THEN g
  ELSE Columns(Column(g, i, first), i + 1, first)

\* The generator finishes: return, or falling off the end of the body.
Return(g) == [g EXCEPT !.pc = "closed", !.result = "StopIteration"]

\* Raise that leaves the generator resumable after the exception.
Raise_KeepsOpen(g, e) ==
  [g EXCEPT !.pc = "suspended", !.result = "error", !.error = e, !.flow = "next"]

\* An exception leaves the generator, which is closed by it.
Raise(g, e) == [g EXCEPT !.pc = "closed", !.result = "error", !.error = e]

\* While with the test n_stopped <= n_items.
While_Le(g) ==
  IF g.n_stopped <= g.n_items
  THEN [g EXCEPT !.pc = "suspended", !.result = "row",
                 !.yielded = Append(@, g.values)]
  ELSE [g EXCEPT !.pc = "closed", !.result = "StopIteration"]

\* while n_stopped < n_items: yield values
While(g) ==
  IF g.n_stopped < g.n_items
  THEN [g EXCEPT !.pc = "suspended", !.result = "row",
                 !.yielded = Append(@, g.values)]
  ELSE Return(g)

\* What follows the column loop.
AfterColumns(g) ==
  CASE g.flow = "return" -> Return(g)
    [] g.flow = "raise" -> Raise(g, g.error)
    [] OTHER -> While(g)

\* The first __next__ of the generator: the body from its start to the
\* first yield.
Start(g) ==
  LET n == Len(g.call.iterables)
      d == IF g.defaults.kind = "None"
           THEN DefaultsSeq([i \in 1..n |-> StopIteration])
           ELSE g.defaults
      h == [g EXCEPT !.n_items = n, !.defaults = d]
  IN
  IF d.kind # "Sequence" THEN Raise(h, "ValueError")
  ELSE IF Len(d.obj) # n THEN Raise(h, "ValueError")
  ELSE AfterColumns(Columns(
         [h EXCEPT !.items = [i \in 1..n |-> Iter(g.call.iterables[i])],
                   !.n_stopped = 0,
                   !.stopped = [i \in 1..n |-> FALSE],
                   !.i_rows = 0,
                   !.values = <<>>], 1, TRUE))

\* A later __next__: the body from the yield to the next yield.
Resume(g) ==
  AfterColumns(Columns(
    [g EXCEPT !.i_rows = @ + 1, !.previous = g.values, !.values = <<>>],
    1, FALSE))

\* __next__ on a finished generator raises StopIteration.
Finished(g) == [g EXCEPT !.result = "StopIteration"]

\* One row request (__next__) on the generator g.
Request(g) ==
  CASE g.pc = "created" -> Start([g EXCEPT !.requests = @ + 1])
    [] g.pc = "suspended" -> Resume([g EXCEPT !.requests = @ + 1])
    [] OTHER -> Finished(g)

\* ------------------------------------------------------------ the system
\* gen is the generator of the call; twin is the generator of the same call
\* with every scalar argument x given as the list [x].  Both are driven by
\* the same requests.
VARIABLES gen, twin
vars == <<gen, twin>>

ListifyAll(iterables) == [i \in DOMAIN iterables |-> Listify(iterables[i])]

Calls ==
  {c \in [iterables : UNION {Tuples(n, UNION {ArgsFor(i) : i \in 1..MaxN}) : n \in 0..MaxN},
          defaults : {DefaultsNone, DefaultsNonSeq}
                       \cup {DefaultsSeq(ds) : ds \in UNION {Tuples(n, Policies) : n \in 0..MaxN}}] :
     \A i \in DOMAIN c.iterables : c.iterables[i] \in ArgsFor(i)}

Init ==
  \E c \in Calls :
    /\ gen = Create(c.iterables, c.defaults)
    /\ twin = Create(ListifyAll(c.iterables), c.defaults)

\* The first request runs the body from its start.
FirstRequest ==
  /\ gen.pc = "created"
  /\ gen' = Request(gen)
  /\ twin' = Request(twin)

\* A request on the generator suspended at its yield.
NextRequest ==
  /\ gen.pc = "suspended"
  /\ gen' = Request(gen)
  /\ twin' = Request(twin)

\* A request on the finished generator.
ClosedRequest ==
  /\ gen.pc = "closed"
  /\ gen' = Request(gen)
  /\ twin' = Request(twin)

Next == FirstRequest \/ NextRequest \/ ClosedRequest

Spec == Init /\ [][Next]_vars

\* The call of the docstring and of test_ziplus: range(10),
\* reversed(range(10)) and 'abcdef', with every choice of defaults.
Range10 == <<"0", "1", "2", "3", "4", "5", "6", "7", "8", "9">>
Reversed10 == <<"9", "8", "7", "6", "5", "4", "3", "2", "1", "0">>
Abcdef == <<"a", "b", "c", "d", "e", "f">>
ExampleIterables == <<ListArg(Range10), ListArg(Reversed10), ListArg(Abcdef)>>

InitEx ==
  \E d \in {DefaultsNone} \cup {DefaultsSeq(ds) : ds \in Tuples(3, Policies)} :
    /\ gen = Create(ExampleIterables, d)
    /\ twin = Create(ListifyAll(ExampleIterables), d)

SpecEx == InitEx /\ [][Next]_vars

\* ------------------------------------------------------------ vocabulary
\* N, the sequence given for column i (a scalar x stands for [x]), its
\* length and column i's fill policy, all read from the call's arguments.
N == Len(gen.call.iterables)
Cols == 1..N
SeqOf(i) ==
  LET a == gen.call.iterables[i] IN IF a.isIterable THEN a.obj ELSE <<a.obj>>
LenOf(i) == Len(SeqOf(i))
ValidCall ==
  \/ gen.call.defaults.kind = "None"
  \/ gen.call.defaults.kind = "Sequence" /\ Len(gen.call.defaults.obj) = N
Pol(i) ==
  IF gen.call.defaults.kind = "None" THEN StopIteration
  ELSE gen.call.defaults.obj[i]

Min(S) == CHOOSE m \in S : \A x \in S : m <= x
Max(S) == CHOOSE m \in S : \A x \in S : m >= x
MinLen(C) == IF C = {} THEN 0 ELSE Min({LenOf(i) : i \in C})
MaxLenOf(C) == IF C = {} THEN 0 ELSE Max({LenOf(i) : i \in C})

\* What row t holds in column i when the column is not a Stop or Raise
\* column that has run out: the sequence's own value up to its length, then
\* the column's fill (the last real value, None when there is none, or the
\* constant).
Entry(i, t) ==
  IF t <= LenOf(i) THEN SeqOf(i)[t]
  ELSE IF Pol(i).kind = "Previous"
       THEN (IF LenOf(i) = 0 THEN None ELSE SeqOf(i)[LenOf(i)])
       ELSE Pol(i).arg
Row(t) == [i \in Cols |-> Entry(i, t)]

Rows == gen.yielded
Closed == gen.pc = "closed"
IsStopped(g, i) == i \in DOMAIN g.stopped /\ g.stopped[i]

\* ---------------------------------------------------------------- claims
AllPolicies(p) == ValidCall /\ \A i \in Cols : Pol(i) = p

\* C1: with every policy Stop (StopIteration), or with defaults omitted,
\* ziplus produces exactly min(len(seq)) rows and row t holds the t-th
\* element of every sequence: the output of a truncating zip.
C1_AllStopIsZip ==
  AllPolicies(StopIteration) =>
    /\ Len(Rows) <= MinLen(Cols)
    /\ \A t \in 1..Len(Rows) : Rows[t] = [i \in Cols |-> SeqOf(i)[t]]
    /\ gen.result # "error"
    /\ Closed => Len(Rows) = MinLen(Cols)

C1_Witness ==
  /\ gen.call.defaults.kind = "None"
  /\ N = 2 /\ LenOf(1) = 3 /\ LenOf(2) = 2
  /\ Closed /\ Len(Rows) = 2

\* C2: with every policy Previous, ziplus produces exactly max(len(seq))
\* rows, and in every row after a column's sequence is exhausted the column
\* holds the last value its sequence produced.
C2_AllPreviousRepeatsLast ==
  AllPolicies(Previous) =>
    /\ Len(Rows) <= MaxLenOf(Cols)
    /\ \A t \in 1..Len(Rows) :
         /\ Len(Rows[t]) = N
         /\ \A i \in Cols :
              /\ t <= LenOf(i) => Rows[t][i] = SeqOf(i)[t]
              /\ (t > LenOf(i) /\ LenOf(i) >= 1) => Rows[t][i] = SeqOf(i)[LenOf(i)]
    /\ gen.result # "error"
    /\ Closed => Len(Rows) = MaxLenOf(Cols)

C2_Witness ==
  /\ AllPolicies(Previous)
  /\ N = 2 /\ LenOf(1) = 3 /\ LenOf(2) = 1
  /\ Closed /\ Len(Rows) = 3 /\ Rows[3][2] = SeqOf(2)[1]

SixRows ==
  << <<"0", "9", "a">>, <<"1", "8", "b">>, <<"2", "7", "c">>,
     <<"3", "6", "d">>, <<"4", "5", "e">>, <<"5", "4", "f">> >>
TenRows ==
  SixRows \o << <<"6", "3", "f">>, <<"7", "2", "f">>,
                <<"8", "1", "f">>, <<"9", "0", "f">> >>
PreviousStopPrevious ==
  gen.call.defaults = DefaultsSeq(<<Previous, StopIteration, Previous>>)

\* C3 as stated: with 0..9, reversed 0..9 and "abcdef" and policies
\* [Previous, Stop, Previous], ziplus produces exactly the 6 rows
\* (0,9,a) .. (5,4,f) and then terminates.
C3_SixRows ==
  (PreviousStopPrevious /\ Closed) => Rows = SixRows

\* C3 as amended: with these sequences and policies ziplus produces exactly
\* 10 rows, the six rows (0,9,a) .. (5,4,f) followed by (6,3,f), (7,2,f),
\* (8,1,f), (9,0,f), and then terminates cleanly: the Stop column has
\* length 10, and the column of length 6 is filled with its last value.
C3_TenRows ==
  PreviousStopPrevious =>
    /\ Len(Rows) <= 10
    /\ Rows = SubSeq(TenRows, 1, Len(Rows))
    /\ gen.result # "error"
    /\ Closed => Rows = TenRows

C3_Witness ==
  PreviousStopPrevious /\ Closed /\ Len(Rows) = 10 /\ gen.result = "StopIteration"

\* C4: with any mix of Stop, Previous and Constant policies (no Raise),
\* iteration ends cleanly, and the number of rows is the smallest length
\* among the Stop columns if there is one, else the largest length of all
\* columns.
StopCols == {i \in Cols : Pol(i).kind = "StopIteration"}
NoRaise == ValidCall /\ \A i \in Cols : Pol(i).kind # "Exception"
RowCount == IF StopCols # {} THEN MinLen(StopCols) ELSE MaxLenOf(Cols)

C4_RowCount ==
  NoRaise =>
    /\ Len(Rows) <= RowCount
    /\ gen.result # "error"
    /\ Closed => Len(Rows) = RowCount /\ gen.result = "StopIteration"

\* A Stop column of length 2 ends the run while a longer column is live and
\* a shorter one is being filled.
C4_Witness ==
  /\ NoRaise /\ N = 2 /\ Closed
  /\ \/ /\ Pol(1) = Const("k") /\ Pol(2) = StopIteration
        /\ LenOf(1) = 1 /\ LenOf(2) = 2 /\ Len(Rows) = 2
     \/ /\ Pol(1) = Previous /\ Pol(2) = Const(None)
        /\ LenOf(1) = 1 /\ LenOf(2) = 3 /\ Len(Rows) = 3

\* C5: for a column with policy Constant(v), v possibly None, whose
\* sequence has length L, rows 1..L hold the sequence's own values and
\* every row after row L holds exactly v in that column.
C5_ConstantFill ==
  ValidCall =>
    \A i \in Cols : Pol(i).kind = "value" =>
      \A t \in 1..Len(Rows) :
        Rows[t][i] = IF t <= LenOf(i) THEN SeqOf(i)[t] ELSE Pol(i).arg

\* Two rows filled with None after the column's single value.
C5_Witness ==
  /\ ValidCall /\ N = 2 /\ Pol(2) = Const(None) /\ LenOf(2) = 1
  /\ Len(Rows) = 3
  /\ Rows[1][2] = SeqOf(2)[1] /\ Rows[2][2] = None /\ Rows[3][2] = None

\* C6: for a column with policy Raise(e) whose sequence has length L, when
\* a request finds the column exhausted, the L rows before it were produced
\* with the values they have without the Raise policy, and that request
\* produces no row and fails with exactly e.
C6_RaiseOnExhaustion ==
  [][ValidCall =>
       \A i \in Cols :
         (Pol(i).kind = "Exception" /\ ~IsStopped(gen, i) /\ IsStopped(gen', i)) =>
           /\ gen'.result = "error" /\ gen'.error = Pol(i).arg
           /\ gen'.pc = "closed"
           /\ gen'.yielded = gen.yielded
           /\ Len(gen.yielded) = LenOf(i)
           /\ \A t \in 1..LenOf(i) : gen.yielded[t] = Row(t)]_vars

\* A Raise column of length 2 has failed the third request, after two rows
\* in which the other column was already being filled.
C6_Witness ==
  /\ ValidCall /\ N = 2 /\ Pol(2) = Exc("KeyError") /\ LenOf(2) = 2
  /\ Pol(1) = Previous /\ LenOf(1) = 1
  /\ IsStopped(gen, 2) /\ gen.result = "error" /\ gen.error = "KeyError"
  /\ Len(Rows) = 2

\* C7 as stated: when the number of policies differs from the number of
\* sequences, or the policies are not a Sequence, ziplus has failed with
\* ValueError once it is constructed, before any row and before any input
\* is advanced.
C7_FailsAtConstruction ==
  ~ValidCall =>
    /\ gen.result = "error" /\ gen.error = "ValueError"
    /\ Rows = <<>>
    /\ \A i \in Cols : gen.consumed[i] = 0

\* What the code does for such a call: the generator object is created
\* without any failure, and its first request fails with ValueError, with no
\* row produced and no input advanced.
FailsAtFirstRequest ==
  ~ValidCall =>
    /\ Rows = <<>>
    /\ \A i \in Cols : gen.consumed[i] = 0
    /\ gen.pc = "created" => gen.result = "none"
    /\ gen.pc # "created" => gen.pc = "closed" /\ gen.error = "ValueError"

\* C8: a scalar argument x behaves as the one-element sequence [x]: for
\* every choice of defaults, each request gives the same outcome (row,
\* end of iteration or error) as on the call with [x] in place of x.
C8_ScalarIsSingleton ==
  /\ gen.pc = twin.pc
  /\ gen.result = twin.result
  /\ gen.error = twin.error
  /\ gen.yielded = twin.yielded
  /\ gen.consumed = twin.consumed

\* A scalar in column 1, repeated by Previous next to a sequence of 3.
C8_Witness ==
  /\ ValidCall /\ N = 2 /\ ~gen.call.iterables[1].isIterable
  /\ Pol(1) = Previous /\ Pol(2) = Previous /\ LenOf(2) = 3
  /\ Closed /\ Len(Rows) = 3
  /\ Rows[1][1] = gen.call.iterables[1].obj
  /\ Rows[3][1] = gen.call.iterables[1].obj

\* C9: when all N columns are marked exhausted no row is produced: the
\* request in which the last live column becomes exhausted produces no row
\* and no later request produces one.
AllExhausted(g) ==
  /\ Len(g.stopped) = Len(g.call.iterables)
  /\ \A i \in DOMAIN g.stopped : g.stopped[i]

C9_NoRowOnceAllExhausted ==
  [][AllExhausted(gen') =>
       /\ gen'.result # "row"
       /\ gen'.yielded = gen.yielded]_vars

\* Both columns ran out (the longer one last) after three rows.
C9_Witness ==
  /\ ValidCall /\ N = 2 /\ StopCols = {} /\ AllExhausted(gen)
  /\ LenOf(1) = 1 /\ LenOf(2) = 3
  /\ Len(Rows) = 3 /\ gen.result = "StopIteration"

\* C10: a Stop column never contributes a filled value: in every produced
\* row its value was pulled from its sequence in that same request, and the
\* request that finds it exhausted ends the iteration with no row and with
\* nothing appended for the column.
C10_StopNeverFilled ==
  [][ValidCall =>
       \A i \in StopCols :
         /\ gen'.result = "row" =>
              /\ ~IsStopped(gen', i)
              /\ gen'.consumed[i] = gen.consumed[i] + 1
              /\ gen'.yielded[Len(gen'.yielded)][i] = SeqOf(i)[gen'.consumed[i]]
         /\ (~IsStopped(gen, i) /\ IsStopped(gen', i)) =>
              /\ gen'.result = "StopIteration" /\ gen'.pc = "closed"
              /\ gen'.yielded = gen.yielded
              /\ Len(gen'.values) = i - 1]_vars

\* The Stop column 2 ran out in the third request, after column 1 had been
\* filled in the second row.
C10_Witness ==
  /\ ValidCall /\ N = 2 /\ Pol(2) = StopIteration /\ Pol(1) = Const("k")
  /\ LenOf(1) = 1 /\ LenOf(2) = 2
  /\ IsStopped(gen, 2) /\ Len(Rows) = 2 /\ Len(gen.values) = 1

\* C11: every row produced over N sequences has exactly N entries, entry i
\* being either the value pulled from sequence i in that request or the
\* value resolved by column i's fill policy (the previous row's entry, None
\* in the first row, or the constant).
C11_RowWidth ==
  [][(ValidCall /\ gen'.result = "row") =>
       LET row == gen'.yielded[Len(gen'.yielded)] IN
       /\ Len(gen'.yielded) = Len(gen.yielded) + 1
       /\ DOMAIN row = Cols
       /\ \A i \in Cols :
            \/ /\ gen'.consumed[i] = gen.consumed[i] + 1
               /\ row[i] = SeqOf(i)[gen'.consumed[i]]
            \/ /\ gen'.consumed[i] = gen.consumed[i]
               /\ IsStopped(gen', i)
               /\ row[i] = IF Pol(i).kind = "Previous"
                           THEN (IF gen.yielded = <<>> THEN None
                                 ELSE gen.yielded[Len(gen.yielded)][i])
                           ELSE Pol(i).arg]_vars

\* A third row whose first entry is filled and whose second is pulled.
C11_Witness ==
  /\ ValidCall /\ N = 2 /\ LenOf(1) = 1 /\ LenOf(2) = 3
  /\ Pol(1) = Const("k") /\ Pol(2) = Previous
  /\ gen.result = "row" /\ Len(Rows) = 3
  /\ Rows[3] = <<"k", SeqOf(2)[3]>>

\* C12: for any input sequences and any policies, iteration terminates
\* (cleanly or with an error) after at most max(len(seq)) + 1 row requests
\* and never produces more than max(len(seq)) rows.
C12_BoundedRun ==
  /\ Len(Rows) <= MaxLenOf(Cols)
  /\ gen.requests <= MaxLenOf(Cols) + 1
  /\ gen.requests = MaxLenOf(Cols) + 1 => Closed

\* The longest run: max(len) rows, closed by request max(len) + 1.
C12_Witness ==
  /\ ValidCall /\ N = 2 /\ LenOf(1) = 1 /\ LenOf(2) = 3
  /\ Closed /\ Len(Rows) = 3 /\ gen.requests = 4

\* C13: in a request where column k with policy Stop is found exhausted,
\* columns k+1..N are not evaluated: their cursors and exhausted flags are
\* unchanged and their Raise policies do not fire.
C13_StopSkipsLaterColumns ==
  [][ValidCall =>
       \A k \in StopCols :
         (~IsStopped(gen, k) /\ IsStopped(gen', k)) =>
           /\ gen'.result = "StopIteration"
           /\ \A j \in Cols : j > k =>
                /\ gen'.consumed[j] = gen.consumed[j]
                /\ IsStopped(gen', j) = IsStopped(gen, j)]_vars

\* Column 1 (Stop) and column 2 (Raise) ran out in the same request: the
\* run ended cleanly with column 2 not marked.
C13_Witness ==
  /\ ValidCall /\ N = 2 /\ Pol(1) = StopIteration /\ Pol(2) = Exc("KeyError")
  /\ LenOf(1) = 1 /\ LenOf(2) = 1
  /\ IsStopped(gen, 1) /\ ~IsStopped(gen, 2)
  /\ gen.consumed[2] = 1 /\ gen.result = "StopIteration" /\ Len(Rows) = 1

\* C14: columns are resolved left to right, so when several columns are
\* exhausted in the same request the lowest-indexed one whose policy is
\* Stop or Raise decides: Raise(e) at k fails the request with e even if a
\* Stop column j > k is exhausted too, and a Stop column j < k ends the
\* iteration cleanly without raising e.
Deciding(g) ==
  {i \in Cols : /\ Pol(i).kind \in {"StopIteration", "Exception"}
                /\ g.consumed[i] = LenOf(i)}

C14_LeftmostDecides ==
  [][(ValidCall /\ gen.pc # "closed" /\ Deciding(gen) # {}) =>
       LET k == Min(Deciding(gen)) IN
       /\ gen'.yielded = gen.yielded
       /\ gen'.pc = "closed"
       /\ IF Pol(k).kind = "Exception"
          THEN gen'.result = "error" /\ gen'.error = Pol(k).arg
          ELSE gen'.result = "StopIteration" /\ gen'.error = None]_vars

\* Raise in column 1 and Stop in column 2 ran out in the same request,
\* which failed with column 1's exception.
C14_Witness ==
  /\ ValidCall /\ N = 2 /\ Pol(1) = Exc("IndexError") /\ Pol(2) = StopIteration
  /\ LenOf(1) = 2 /\ LenOf(2) = 2
  /\ gen.result = "error" /\ gen.error = "IndexError" /\ Len(Rows) = 2

\* A Raise column has been found exhausted.
RaiseTripped(g) ==
  \E i \in Cols : Pol(i).kind = "Exception" /\ IsStopped(g, i)

\* C15 as stated: once a Raise(e) column has been found exhausted, every
\* later row request also fails with e.
C15_RaiseEveryRequest ==
  [][(ValidCall /\ RaiseTripped(gen)) =>
       gen'.result = "error" /\ gen'.error = gen.error]_vars

\* C15 as amended: once a Raise(e) column has been found exhausted, only
\* that request fails with e; the generator is finished by the exception,
\* and every later row request produces no row and signals the end of the
\* iteration (StopIteration) instead of e.
C15_RaiseOnce ==
  /\ [](ValidCall /\ RaiseTripped(gen) => gen.pc = "closed")
  /\ [][(ValidCall /\ RaiseTripped(gen)) =>
          /\ gen'.result = "StopIteration"
          /\ gen'.pc = "closed"
          /\ gen'.yielded = gen.yielded
          /\ gen'.requests = gen.requests]_vars

\* A request was made after the one that failed.
C15_Witness ==
  /\ ValidCall /\ RaiseTripped(gen) /\ gen.error = "KeyError"
  /\ gen.result = "StopIteration" /\ Len(Rows) = 2

\* C16: a Previous column whose sequence is empty, next to a column that
\* is still live, holds None in the first row and in every later row.
C16_EmptyPreviousIsNone ==
  ValidCall =>
    \A i \in Cols : (Pol(i) = Previous /\ LenOf(i) = 0) =>
      \A t \in 1..Len(Rows) : Rows[t][i] = None

C16_Witness ==
  /\ ValidCall /\ N = 2 /\ Pol(1) = Previous /\ LenOf(1) = 0
  /\ LenOf(2) = 3 /\ Len(Rows) = 3
  /\ Rows[1][1] = None /\ Rows[3][1] = None /\ Rows[3][2] = SeqOf(2)[3]

\* C17: each column's exhausted flag is false before the first row, flips
\* to true at most once and never resets; the exhausted-column counter is
\* incremented exactly at each flip, so it equals the number of columns
\* flagged exhausted and never exceeds N.
Flagged(g) == {i \in Cols : IsStopped(g, i)}

C17_StickyFlags ==
  /\ [](/\ gen.n_stopped = Cardinality(Flagged(gen))
        /\ gen.n_stopped <= N
        /\ Rows = <<>> /\ gen.pc # "closed" => Flagged(gen) = {})
  /\ [][/\ Flagged(gen) \subseteq Flagged(gen')
        /\ gen'.n_stopped - gen.n_stopped
             = Cardinality(Flagged(gen') \ Flagged(gen))]_vars

\* The two columns were flagged in different requests.
C17_Witness ==
  /\ ValidCall /\ N = 2 /\ LenOf(1) = 1 /\ LenOf(2) = 3
  /\ Flagged(gen) = {1, 2} /\ gen.n_stopped = 2 /\ Len(Rows) = 3

\* C18: once a column has been found exhausted its sequence is never
\* pulled again, and in every request each evaluated column that is not
\* exhausted is pulled exactly once; so after r rows, with the iteration
\* not ended, sequence i has had exactly min(len_i, r) values consumed.
\* The columns a request evaluated: those it appended a value for, and the
\* one that made it return or raise.
Evaluated(g) ==
  1..(Len(g.values) + IF g.flow = "next" THEN 0 ELSE 1)

C18_PullOncePerRequest ==
  /\ [](ValidCall =>
          \A i \in Cols :
            /\ gen.pulls[i] = gen.consumed[i] + IF IsStopped(gen, i) THEN 1 ELSE 0
            /\ gen.pc = "suspended" =>
                 gen.consumed[i] = IF LenOf(i) < Len(Rows) THEN LenOf(i) ELSE Len(Rows))
  /\ [][(ValidCall /\ gen.pc # "closed") =>
          \A i \in Cols :
            gen'.pulls[i] - gen.pulls[i] =
              IF i \in Evaluated(gen') /\ ~IsStopped(gen, i) THEN 1 ELSE 0]_vars

\* After two rows the exhausted column 1 has been pulled twice (one value
\* and the failed pull) and column 2 has given two of its three values.
C18_Witness ==
  /\ ValidCall /\ N = 2 /\ LenOf(1) = 1 /\ LenOf(2) = 3
  /\ gen.pc = "suspended" /\ Len(Rows) = 2
  /\ gen.consumed = <<1, 2>> /\ gen.pulls = <<2, 2>>

\* C19: in a request that ends without a row because column k triggers
\* Stop or Raise, every still-live column j < k has had one value pulled in
\* that request; the value is consumed from its sequence and appears in no
\* produced row.
C19_PulledValuesLost ==
  [][(ValidCall /\ gen.pc # "closed" /\ gen'.flow # "next") =>
       LET k == Len(gen'.values) + 1 IN
       /\ Pol(k).kind \in {"StopIteration", "Exception"}
       /\ gen'.yielded = gen.yielded
       /\ gen'.pc = "closed"
       /\ \A j \in 1..(k - 1) : gen.consumed[j] < LenOf(j) =>
            /\ gen'.consumed[j] = gen.consumed[j] + 1
            /\ gen'.values[j] = SeqOf(j)[gen'.consumed[j]]
            /\ \A t \in 1..Len(gen'.yielded) :
                 gen'.yielded[t][j] # SeqOf(j)[gen'.consumed[j]]]_vars

\* The second request pulled a2 from column 1 and then found the Stop
\* column 2 exhausted: a2 is consumed and in no row.
C19_Witness ==
  /\ ValidCall /\ N = 2 /\ LenOf(1) = 3 /\ LenOf(2) = 1
  /\ Pol(2) = StopIteration
  /\ Closed /\ gen.flow = "return" /\ Rows = << <<"a1", "b1">> >>
  /\ gen.consumed[1] = 2 /\ gen.values = <<"a2">>

====
